---- MODULE Spec2Model ----
(* Territories, missions, attack validation, combat resolution and teardown *)
(* of src/war.c.  Pointers are modelled as positive integers (the territory *)
(* stored in registry slot k is object k), the null pointer as 0, and the   *)
(* C heap as a map from each allocated block to the number of free() calls  *)
(* it has received.                                                         *)
EXTENDS Integers, Sequences, FiniteSets, TLC

VARIABLES pc, territories, terr, missions, mission, heap, last

vars == <<pc, territories, terr, missions, mission, heap, last>>

(* ---------------------------------------------------------------- bounds *)
MaxArmies == 2      \* largest armies argument passed to criarTerritorio
MaxEdges == 2       \* adicionarVizinho calls made on a map built from nothing
MaxExtraEdges == 0  \* adicionarVizinho calls made on top of main's map

(* ------------------------------------------------------------- constants *)
NULL == 0
\* an array pointer is modelled by the array's contents, a null one by <<>>
NullArray == <<>>
DiceSides == 6
MinAttackArmies == 2
MainNTerritories == 3
MainNMissions == 2
\* the arguments main passes to the factories and to validarAtaque
MainOwner == <<1, 2, 0>>
MainArmies == <<5, 3, 2>>
MainEdges == <<<<1, 2>>, <<2, 1>>, <<2, 3>>, <<3, 2>>>>
MainTarget == <<0, 2>>
MainPlayer == 1

Owners == {MainOwner[k] : k \in 1..MainNTerritories}
ArmyArgs == 0..MaxArmies
\* rand() is modelled by its residue modulo the number of sides
RandVals == 0..(DiceSides - 1)

(* --------------------------------------------------------------- heap --- *)
TerrBlock(i) == <<"Territory", i>>
NameBlock(i) == <<"name", i>>
NeighborsBlock(i) == <<"neighbors", i>>
MissionBlock(j) == <<"Mission", j>>
DescBlock(j) == <<"description", j>>
TerritoriesBlock == <<"territories", 0>>
MissionsBlock == <<"missions", 0>>

malloc(h, b) == IF b \in DOMAIN h THEN h ELSE h @@ (b :> 0)
free(h, b) == [h EXCEPT ![b] = @ + 1]

\* a string is modelled by the positive integer that identifies its text
NameOf(k) == k
DescOf(j) == j

(* ------------------------------------------------------------ factories - *)
criarTerritorio(name, owner, armies) ==
    [name |-> name, owner |-> owner, armies |-> armies,
     nNeighbors |-> 0, neighbors |-> NullArray]

\* adicionarVizinho that also records the reverse edge
adicionarVizinhoMirror(T, t, vizinho) ==
    LET T1 == [T EXCEPT ![t].neighbors = Append(@, vizinho),
                        ![t].nNeighbors = @ + 1]
    IN  [T1 EXCEPT ![vizinho].neighbors = Append(@, t),
                   ![vizinho].nNeighbors = @ + 1]

adicionarVizinho(T, t, vizinho) ==
    [T EXCEPT ![t].neighbors = Append(@, vizinho),
              ![t].nNeighbors = @ + 1]

criarMissao(desc, targetOwner) ==
    [description |-> desc, targetOwner |-> targetOwner]

(* ------------------------------------------------------ attack validator *)
RECURSIVE scanNeighbors(_, _, _, _)
scanNeighbors(nb, n, to, i) ==
    IF i >= n THEN 0
    ELSE IF nb[i + 1] = to THEN 1
    ELSE scanNeighbors(nb, n, to, i + 1)

\* validarAtaque without the test of line 87
validarAtaqueOwnTarget(T, from, to, playerId) ==
    IF from = NULL \/ to = NULL THEN 0
    ELSE IF T[from].owner # playerId THEN 0
    ELSE IF T[from].armies < MinAttackArmies THEN 0
    ELSE IF scanNeighbors(T[from].neighbors, T[from].nNeighbors, to, 0) = 0 THEN 0
    ELSE 1

\* validarAtaque with line 91 reading from->armies < 1
validarAtaqueOneArmy(T, from, to, playerId) ==
    IF from = NULL \/ to = NULL THEN 0
    ELSE IF T[from].owner # playerId THEN 0
    ELSE IF T[to].owner = playerId THEN 0
    ELSE IF T[from].armies < MinAttackArmies - 1 THEN 0
    ELSE IF scanNeighbors(T[from].neighbors, T[from].nNeighbors, to, 0) = 0 THEN 0
    ELSE 1

validarAtaque(T, from, to, playerId) ==
    IF from = NULL \/ to = NULL THEN 0
    ELSE IF T[from].owner # playerId THEN 0
    ELSE IF T[to].owner = playerId THEN 0
    ELSE IF T[from].armies < MinAttackArmies THEN 0
    ELSE IF scanNeighbors(T[from].neighbors, T[from].nNeighbors, to, 0) = 0 THEN 0
    ELSE 1

(* ------------------------------------------------------- combat resolver *)
Roll(r) == (r % DiceSides) + 1

\* resolverAtaque without line 118: the conquest costs the attacker nothing
resolverAtaqueNoCommit(T, from, to, attackRoll, defendRoll) ==
    IF attackRoll > defendRoll
    THEN LET T1 == [T EXCEPT ![to].armies = @ - 1]
         IN  IF T1[to].armies <= 0
             THEN LET T2 == [T1 EXCEPT ![to].owner = T1[from].owner]
                      T4 == [T2 EXCEPT ![to].armies = 1]
                  IN  [steps |-> <<T, T1, T2, T4>>, out |-> "conquistado"]
             ELSE [steps |-> <<T, T1>>, out |-> "defensorPerde"]
    ELSE LET T1 == [T EXCEPT ![from].armies = @ - 1]
         IN  [steps |-> <<T, T1>>, out |-> "atacantePerde"]

\* resolverAtaque with line 114 reading to->armies < 0
resolverAtaqueStrict(T, from, to, attackRoll, defendRoll) ==
    IF attackRoll > defendRoll
    THEN LET T1 == [T EXCEPT ![to].armies = @ - 1]
         IN  IF T1[to].armies < 0
             THEN LET T2 == [T1 EXCEPT ![to].owner = T1[from].owner]
                      T3 == [T2 EXCEPT ![from].armies = @ - 1]
                      T4 == [T3 EXCEPT ![to].armies = 1]
                  IN  [steps |-> <<T, T1, T2, T3, T4>>, out |-> "conquistado"]
             ELSE [steps |-> <<T, T1>>, out |-> "defensorPerde"]
    ELSE LET T1 == [T EXCEPT ![from].armies = @ - 1]
         IN  [steps |-> <<T, T1>>, out |-> "atacantePerde"]

\* resolverAtaque with line 111 reading attackRoll >= defendRoll
resolverAtaqueTies(T, from, to, attackRoll, defendRoll) ==
    IF attackRoll >= defendRoll
    THEN LET T1 == [T EXCEPT ![to].armies = @ - 1]
         IN  IF T1[to].armies <= 0
             THEN LET T2 == [T1 EXCEPT ![to].owner = T1[from].owner]
                      T3 == [T2 EXCEPT ![from].armies = @ - 1]
                      T4 == [T3 EXCEPT ![to].armies = 1]
                  IN  [steps |-> <<T, T1, T2, T3, T4>>, out |-> "conquistado"]
             ELSE [steps |-> <<T, T1>>, out |-> "defensorPerde"]
    ELSE LET T1 == [T EXCEPT ![from].armies = @ - 1]
         IN  [steps |-> <<T, T1>>, out |-> "atacantePerde"]

\* resolverAtaque without line 125: a lost roll costs the attacker nothing
resolverAtaqueFreeLoss(T, from, to, attackRoll, defendRoll) ==
    IF attackRoll > defendRoll
    THEN LET T1 == [T EXCEPT ![to].armies = @ - 1]
         IN  IF T1[to].armies <= 0
             THEN LET T2 == [T1 EXCEPT ![to].owner = T1[from].owner]
                      T3 == [T2 EXCEPT ![from].armies = @ - 1]
                      T4 == [T3 EXCEPT ![to].armies = 1]
                  IN  [steps |-> <<T, T1, T2, T3, T4>>, out |-> "conquistado"]
             ELSE [steps |-> <<T, T1>>, out |-> "defensorPerde"]
    ELSE [steps |-> <<T, T>>, out |-> "atacantePerde"]

\* steps: the territory store before the call and after each assignment
resolverAtaque(T, from, to, attackRoll, defendRoll) ==
    IF attackRoll > defendRoll
    THEN LET T1 == [T EXCEPT ![to].armies = @ - 1]
         IN  IF T1[to].armies <= 0
             THEN LET T2 == [T1 EXCEPT ![to].owner = T1[from].owner]
                      T3 == [T2 EXCEPT ![from].armies = @ - 1]
                      T4 == [T3 EXCEPT ![to].armies = 1]
                  IN  [steps |-> <<T, T1, T2, T3, T4>>, out |-> "conquistado"]
             ELSE [steps |-> <<T, T1>>, out |-> "defensorPerde"]
    ELSE LET T1 == [T EXCEPT ![from].armies = @ - 1]
         IN  [steps |-> <<T, T1>>, out |-> "atacantePerde"]

(* ------------------------------------------------------ lifecycle manager *)
RECURSIVE freeAll(_, _, _)
freeAll(h, nb, k) ==
    IF k = 0 THEN h ELSE freeAll(free(h, TerrBlock(nb[k])), nb, k - 1)

\* freeTerritory that also frees the territories the neighbour array points to
freeTerritoryDeep(st, i) ==
    LET t == st.territories[i]
        h1 == IF st.terr[t].name # NULL THEN free(st.heap, NameBlock(t)) ELSE st.heap
        h2 == IF st.terr[t].neighbors # NullArray
              THEN free(freeAll(h1, st.terr[t].neighbors, Len(st.terr[t].neighbors)),
                        NeighborsBlock(t))
              ELSE h1
        h3 == free(h2, TerrBlock(t))
    IN  [st EXCEPT !.heap = h3,
                   !.terr = [@ EXCEPT ![t].name = NULL, ![t].neighbors = NullArray],
                   !.territories = [@ EXCEPT ![i] = NULL]]

freeTerritory(st, i) ==
    LET t == st.territories[i]
        h1 == IF st.terr[t].name # NULL THEN free(st.heap, NameBlock(t)) ELSE st.heap
        h2 == IF st.terr[t].neighbors # NullArray THEN free(h1, NeighborsBlock(t)) ELSE h1
        h3 == free(h2, TerrBlock(t))
    IN  [st EXCEPT !.heap = h3,
                   !.terr = [@ EXCEPT ![t].name = NULL, ![t].neighbors = NullArray],
                   !.territories = [@ EXCEPT ![i] = NULL]]

RECURSIVE freeTerritories(_, _, _)
freeTerritories(st, i, nTerritories) ==
    IF i >= nTerritories THEN st
    ELSE IF st.territories[i + 1] = NULL THEN freeTerritories(st, i + 1, nTerritories)
    ELSE freeTerritories(freeTerritory(st, i + 1), i + 1, nTerritories)

freeMission(st, j) ==
    LET m == st.missions[j]
        h1 == IF st.mission[m].description # NULL THEN free(st.heap, DescBlock(m)) ELSE st.heap
        h2 == free(h1, MissionBlock(m))
    IN  [st EXCEPT !.heap = h2,
                   !.mission = [@ EXCEPT ![m].description = NULL],
                   !.missions = [@ EXCEPT ![j] = NULL]]

RECURSIVE freeMissions(_, _, _)
freeMissions(st, j, nMissions) ==
    IF j >= nMissions THEN st
    ELSE IF st.missions[j + 1] = NULL THEN freeMissions(st, j + 1, nMissions)
    ELSE freeMissions(freeMission(st, j + 1), j + 1, nMissions)

\* st.territories / st.missions are the two pointer arguments (NullArray or the array)
liberarMemoria(st, nTerritories, nMissions) ==
    LET s1 == IF st.territories # NullArray
              THEN LET a == freeTerritories(st, 0, nTerritories)
                   IN  [a EXCEPT !.heap = free(@, TerritoriesBlock)]
              ELSE st
        s2 == IF s1.missions # NullArray
              THEN LET b == freeMissions(s1, 0, nMissions)
                   IN  [b EXCEPT !.heap = free(@, MissionsBlock)]
              ELSE s1
    IN  s2

(* --------------------------------------------------- history of the calls *)
\* last: the most recent factory, adjacency, validation or attack call: its
\* arguments, its return value, the dice it rolled, the line it printed and
\* the territory store before it and after each of its assignments.  Only
\* adicionarVizinho and an accepted validation or attack keep their arguments.
Call(op, from, to, playerId, ret, dice, out, steps) ==
    [op |-> op, from |-> from, to |-> to, playerId |-> playerId,
     ret |-> ret, rolls |-> dice, out |-> out, steps |-> steps]

NoRolls == <<0, 0>>
Done(op) == Call(op, NULL, NULL, 0, 0, NoRolls, "", <<>>)
Failed(msg) == Call("exit", NULL, NULL, 0, 0, NoRolls, msg, <<>>)

Store == [heap |-> heap, terr |-> terr, territories |-> territories,
          mission |-> mission, missions |-> missions]

(* ------------------------------------------------------------ statements *)
\* territories[k-1] = criarTerritorio(name, owner, armies);
CallCriarTerritorio(k, name, owner, armies, okpc) ==
    \/ /\ terr' = Append(terr, criarTerritorio(name, owner, armies))
       /\ heap' = malloc(malloc(heap, TerrBlock(k)), NameBlock(k))
       /\ territories' = [territories EXCEPT ![k] = k]
       /\ last' = Done("criarTerritorio")
       /\ pc' = okpc
       /\ UNCHANGED <<missions, mission>>
    \/ /\ pc' = "exit"
       /\ last' = Failed("malloc Territory")
       /\ UNCHANGED <<territories, terr, missions, mission, heap>>
    \/ /\ pc' = "exit"
       /\ heap' = free(malloc(heap, TerrBlock(k)), TerrBlock(k))
       /\ last' = Failed("malloc name")
       /\ UNCHANGED <<territories, terr, missions, mission>>

\* adicionarVizinho(t, vizinho);
CallAdicionarVizinho(t, vizinho, okpc) ==
    \/ /\ terr' = adicionarVizinho(terr, t, vizinho)
       /\ heap' = malloc(heap, NeighborsBlock(t))
       /\ last' = Call("adicionarVizinho", t, vizinho, 0, 0, NoRolls, "", <<terr, terr'>>)
       /\ pc' = okpc
       /\ UNCHANGED <<territories, missions, mission>>
    \/ /\ pc' = "exit"
       /\ last' = Failed("realloc neighbors")
       /\ UNCHANGED <<territories, terr, missions, mission, heap>>

\* missions[j-1] = criarMissao(desc, targetOwner);
CallCriarMissao(j, desc, targetOwner, okpc) ==
    \/ /\ mission' = Append(mission, criarMissao(desc, targetOwner))
       /\ heap' = malloc(malloc(heap, MissionBlock(j)), DescBlock(j))
       /\ missions' = [missions EXCEPT ![j] = j]
       /\ last' = Done("criarMissao")
       /\ pc' = okpc
       /\ UNCHANGED <<territories, terr>>
    \/ /\ pc' = "exit"
       /\ last' = Failed("malloc Mission")
       /\ UNCHANGED <<territories, terr, missions, mission, heap>>
    \/ /\ pc' = "exit"
       /\ heap' = free(malloc(heap, MissionBlock(j)), MissionBlock(j))
       /\ last' = Failed("malloc desc")
       /\ UNCHANGED <<territories, terr, missions, mission>>

\* validarAtaque(from, to, playerId), called for its result alone
CallValidarAtaque(from, to, playerId, okpc) ==
    /\ pc' = okpc
    /\ last' = IF validarAtaque(terr, from, to, playerId) # 0
               THEN Call("validarAtaque", from, to, playerId,
                         validarAtaque(terr, from, to, playerId), NoRolls, "", <<terr>>)
               ELSE Call("validarAtaque", NULL, NULL, 0, 0, NoRolls, "", <<>>)
    /\ UNCHANGED <<territories, terr, missions, mission, heap>>

\* if (validarAtaque(from, to, playerId)) resolverAtaque(from, to); else ...
\* the two rand() calls are made inside resolverAtaque
CallAtaque(from, to, playerId, okpc) ==
    /\ pc' = okpc
    /\ IF validarAtaque(terr, from, to, playerId) # 0
       THEN \E r1 \in RandVals, r2 \in RandVals :
               LET r == resolverAtaque(terr, from, to, Roll(r1), Roll(r2))
               IN  /\ terr' = r.steps[Len(r.steps)]
                   /\ last' = Call("resolverAtaque", from, to, playerId, 1,
                                   <<Roll(r1), Roll(r2)>>, r.out, r.steps)
       ELSE /\ last' = Call("validarAtaque", NULL, NULL, 0, 0, NoRolls, "invalido", <<>>)
            /\ UNCHANGED terr
    /\ UNCHANGED <<territories, missions, mission, heap>>

\* liberarMemoria(tArg, nTerritories, mArg, nMissions); the two array
\* arguments are passed by value, the caller's own pointers stay as they are
CallLiberarMemoria(tArg, nTerritories, mArg, nMissions, okpc) ==
    LET s == liberarMemoria([Store EXCEPT !.territories = tArg, !.missions = mArg],
                            nTerritories, nMissions)
    IN  /\ heap' = s.heap
        /\ terr' = s.terr
        /\ mission' = s.mission
        /\ territories' = IF tArg = NullArray THEN territories ELSE s.territories
        /\ missions' = IF mArg = NullArray THEN missions ELSE s.missions
        /\ pc' = okpc
        /\ UNCHANGED last

(* ------------------------------------------- operations in any order --- *)
EmptySlots(n) == [i \in 1..n |-> NULL]

RECURSIVE SumNeighbors(_, _)
SumNeighbors(T, i) == IF i = 0 THEN 0 ELSE T[i].nNeighbors + SumNeighbors(T, i - 1)

Edges == SumNeighbors(terr, Len(terr))

Created == 1..Len(terr)

HeapOf(t, m) ==
    [b \in (IF t = NullArray THEN {} ELSE {TerritoriesBlock})
           \cup (IF m = NullArray THEN {} ELSE {MissionsBlock}) |-> 0]

\* a caller that builds main's three territories with any armies, main's
\* adjacency and any further edges, and attacks with any arguments
Init ==
    /\ pc = "run"
    /\ territories = EmptySlots(MainNTerritories)
    /\ missions = NullArray
    /\ terr = <<>>
    /\ mission = <<>>
    /\ heap = HeapOf(territories, missions)
    /\ last = Done("none")

CriarTerritorio ==
    /\ pc = "run"
    /\ territories # NullArray
    /\ Len(terr) < MainNTerritories
    /\ \E armies \in ArmyArgs :
          CallCriarTerritorio(Len(terr) + 1, NameOf(Len(terr) + 1),
                              MainOwner[Len(terr) + 1], armies, "run")

\* any adjacency, built from nothing
AdicionarVizinho ==
    /\ pc = "run"
    /\ Edges < MaxEdges
    /\ \E t \in Created, vizinho \in Created :
          CallAdicionarVizinho(t, vizinho, "run")

\* main's adjacency in main's order, then any further edge
AdicionarVizinhoMapa ==
    /\ pc = "run"
    /\ Edges < Len(MainEdges) + MaxExtraEdges
    /\ \E t \in Created, vizinho \in Created :
          /\ Edges < Len(MainEdges) => <<t, vizinho>> = MainEdges[Edges + 1]
          /\ CallAdicionarVizinho(t, vizinho, "run")

CriarMissao ==
    /\ pc = "run"
    /\ missions # NullArray
    /\ Len(mission) < MainNMissions
    /\ CallCriarMissao(Len(mission) + 1, DescOf(Len(mission) + 1),
                       MainTarget[Len(mission) + 1], "run")

\* every rejected attempt leaves the same state: the one with two null
\* pointers stands for all of them
Atacar ==
    /\ pc = "run"
    /\ \E from \in Created \cup {NULL}, to \in Created \cup {NULL},
          playerId \in Owners :
          /\ \/ validarAtaque(terr, from, to, playerId) # 0
             \/ <<from, to, playerId>> = <<NULL, NULL, MainPlayer>>
          /\ CallAtaque(from, to, playerId, "run")

\* as for Atacar, one rejected call stands for all of them
Validar ==
    /\ pc = "run"
    /\ \E from \in Created \cup {NULL}, to \in Created \cup {NULL},
          playerId \in Owners :
          /\ \/ validarAtaque(terr, from, to, playerId) # 0
             \/ <<from, to, playerId>> = <<NULL, NULL, MainPlayer>>
          /\ CallValidarAtaque(from, to, playerId, "run")

LiberarMemoria ==
    /\ pc = "run"
    /\ CallLiberarMemoria(territories, MainNTerritories, missions, MainNMissions, "released")

Next ==
    \/ CriarTerritorio
    \/ AdicionarVizinhoMapa
    \/ Atacar

Spec == Init /\ [][Next]_vars

\* a caller that builds the two registries, either of which may be absent,
\* with any adjacency, asks whether attacks are valid and tears the
\* registries down at any moment
InitLifecycle ==
    /\ pc = "run"
    /\ territories \in {NullArray, EmptySlots(MainNTerritories)}
    /\ missions \in {NullArray, EmptySlots(MainNMissions)}
    /\ terr = <<>>
    /\ mission = <<>>
    /\ heap = HeapOf(territories, missions)
    /\ last = Done("none")

NextLifecycle ==
    \/ CriarTerritorio
    \/ AdicionarVizinho
    \/ CriarMissao
    \/ Validar
    \/ LiberarMemoria

SpecLifecycle == InitLifecycle /\ [][NextLifecycle]_vars

(* ------------------------------------------------------------------ main *)

InitMain ==
    /\ pc = "L190"
    /\ territories = NullArray
    /\ missions = NullArray
    /\ terr = <<>>
    /\ mission = <<>>
    /\ heap = HeapOf(territories, missions)
    /\ last = Done("none")

\* Territory **territories = malloc(...); the slots read as NULL until set
Main_L190 ==
    /\ pc = "L190"
    /\ \/ /\ territories' = EmptySlots(MainNTerritories)
          /\ heap' = malloc(heap, TerritoriesBlock)
          /\ pc' = "L193"
          /\ UNCHANGED <<terr, missions, mission, last>>
       \/ /\ pc' = "exit"
          /\ last' = Failed("malloc territories")
          /\ UNCHANGED <<territories, terr, missions, mission, heap>>

Main_L193 == pc = "L193" /\ CallCriarTerritorio(1, NameOf(1), MainOwner[1], MainArmies[1], "L194")
Main_L194 == pc = "L194" /\ CallCriarTerritorio(2, NameOf(2), MainOwner[2], MainArmies[2], "L195")
Main_L195 == pc = "L195" /\ CallCriarTerritorio(3, NameOf(3), MainOwner[3], MainArmies[3], "L198")

Main_L198 == pc = "L198" /\ CallAdicionarVizinho(territories[MainEdges[1][1]], territories[MainEdges[1][2]], "L199")
Main_L199 == pc = "L199" /\ CallAdicionarVizinho(territories[MainEdges[2][1]], territories[MainEdges[2][2]], "L200")
Main_L200 == pc = "L200" /\ CallAdicionarVizinho(territories[MainEdges[3][1]], territories[MainEdges[3][2]], "L201")
Main_L201 == pc = "L201" /\ CallAdicionarVizinho(territories[MainEdges[4][1]], territories[MainEdges[4][2]], "L205")

\* Mission **missions = malloc(...); on failure the territories are released
Main_L205 ==
    /\ pc = "L205"
    /\ \/ /\ missions' = EmptySlots(MainNMissions)
          /\ heap' = malloc(heap, MissionsBlock)
          /\ pc' = "L208"
          /\ UNCHANGED <<territories, terr, mission, last>>
       \/ CallLiberarMemoria(territories, MainNTerritories, NullArray, 0, "exit")

Main_L208 == pc = "L208" /\ CallCriarMissao(1, DescOf(1), MainTarget[1], "L209")
Main_L209 == pc = "L209" /\ CallCriarMissao(2, DescOf(2), MainTarget[2], "L217")

Main_L217 == pc = "L217" /\ CallAtaque(territories[1], territories[2], MainPlayer, "L225")

\* line 225 written like line 206: the missions are not passed
Main_L225_NoMissions ==
    /\ pc = "L225"
    /\ CallLiberarMemoria(territories, MainNTerritories, NullArray, 0, "L227")

Main_L225 ==
    /\ pc = "L225"
    /\ CallLiberarMemoria(territories, MainNTerritories, missions, MainNMissions, "L227")

Main_L227 ==
    /\ pc = "L227"
    /\ pc' = "done"
    /\ UNCHANGED <<territories, terr, missions, mission, heap, last>>

NextMain ==
    \/ Main_L190
    \/ Main_L193 \/ Main_L194 \/ Main_L195
    \/ Main_L198 \/ Main_L199 \/ Main_L200 \/ Main_L201
    \/ Main_L205
    \/ Main_L208 \/ Main_L209
    \/ Main_L217
    \/ Main_L225
    \/ Main_L227

SpecMain == InitMain /\ [][NextMain]_vars

(* ------------------------------------------------------------ properties *)
Attacked == last.op = "resolverAtaque"
Added == last.op = "adicionarVizinho"
Pre == last.steps[1]
Others(a, b) == Created \ {a, b}
Pointers == Created \cup {NULL}
Occurs(nb, x) == \E i \in 1..Len(nb) : nb[i] = x

\* C1: validarAtaque returns 1 exactly when both territories are present, the
\* attacker is owned by the player, the target is not, the attacker holds at
\* least 2 armies and the target occurs in the attacker's neighbour sequence,
\* at whatever position and however often; otherwise it returns 0.
C1_ValidarAtaqueIff ==
    pc = "run" =>
        \A from \in Pointers, to \in Pointers, p \in Owners :
            /\ validarAtaque(terr, from, to, p) \in {0, 1}
            /\ (validarAtaque(terr, from, to, p) = 1) <=>
                  /\ from # NULL
                  /\ to # NULL
                  /\ terr[from].owner = p
                  /\ terr[to].owner # p
                  /\ terr[from].armies >= 2
                  /\ Occurs(terr[from].neighbors, to)

\* an accepted call whose target is the second neighbour of the attacker and
\* not the first
C1_Witness ==
    /\ pc = "run"
    /\ last.op = "validarAtaque"
    /\ last.ret = 1
    /\ Len(Pre[last.from].neighbors) = 2
    /\ Pre[last.from].neighbors[1] # last.to
    /\ Pre[last.from].neighbors[2] = last.to

\* C2: after one resolverAtaque call either exactly one of the two army counts
\* is one lower, the other is as before and no owner changed, or the target
\* belongs to the attacker's owner, holds exactly 1 army and the attacker is
\* one army lower; an owner changes only in a conquest.
C2_OneArmyOrConquest ==
    Attacked =>
        LET f == last.from
            t == last.to
            DecFrom == terr[f].armies = Pre[f].armies - 1 /\ terr[t].armies = Pre[t].armies
            DecTo == terr[t].armies = Pre[t].armies - 1 /\ terr[f].armies = Pre[f].armies
            SameOwners == terr[f].owner = Pre[f].owner /\ terr[t].owner = Pre[t].owner
            Conquest == /\ terr[t].owner = Pre[f].owner
                        /\ terr[f].owner = Pre[f].owner
                        /\ terr[t].armies = 1
                        /\ terr[f].armies = Pre[f].armies - 1
        IN  /\ \/ (DecFrom \/ DecTo) /\ ~(DecFrom /\ DecTo) /\ SameOwners
               \/ Conquest
            /\ ~SameOwners => last.out = "conquistado" /\ Conquest
            /\ last.out # "conquistado" => SameOwners
            /\ \A u \in Others(f, t) : terr[u] = Pre[u]

\* a conquest of a territory that held no army
C2_Witness ==
    /\ Attacked
    /\ last.out = "conquistado"
    /\ Pre[last.to].armies = 0
    /\ terr[last.to].armies = 1

\* C3: when the attacker's roll is higher, the target is conquered exactly
\* when its army count less one is <= 0; a conquest leaves the target with the
\* attacker's owner and 1 army and the attacker one army lower, and otherwise
\* only the target's army count changes, by exactly one.
C3_ConquestIff ==
    (Attacked /\ last.rolls[1] > last.rolls[2]) =>
        LET f == last.from
            t == last.to
        IN  /\ (last.out = "conquistado") <=> (Pre[t].armies - 1 <= 0)
            /\ (terr[t].owner # Pre[t].owner) <=> (Pre[t].armies - 1 <= 0)
            /\ Pre[t].armies - 1 <= 0 =>
                  terr = [Pre EXCEPT ![t].owner = Pre[f].owner,
                                     ![t].armies = 1,
                                     ![f].armies = @ - 1]
            /\ Pre[t].armies - 1 > 0 =>
                  terr = [Pre EXCEPT ![t].armies = @ - 1]

\* a conquest of a territory that held exactly one army
C3_Witness ==
    /\ Attacked
    /\ last.rolls[1] > last.rolls[2]
    /\ Pre[last.to].armies = 1
    /\ terr[last.to].owner = Pre[last.from].owner

\* C4: when the attacker's roll is not higher, ties included, the attacker
\* loses exactly one army and nothing else changes.
C4_DefenderWins ==
    (Attacked /\ last.rolls[1] <= last.rolls[2]) =>
        /\ terr = [Pre EXCEPT ![last.from].armies = @ - 1]
        /\ last.out = "atacantePerde"

\* a tie that cost the attacker one army
C4_Witness ==
    /\ Attacked
    /\ last.rolls[1] = last.rolls[2]
    /\ terr[last.from].armies = Pre[last.from].armies - 1

\* C5: every territory holds armies >= 0 in every state, the states between
\* two assignments of resolverAtaque included.
C5_ArmiesNeverNegative ==
    /\ \A t \in Created : terr[t].armies >= 0
    /\ \A k \in 1..Len(last.steps) :
          \A t \in 1..Len(last.steps[k]) : last.steps[k][t].armies >= 0

\* C6 as stated: adicionarVizinho(t, n) grows t's neighbour sequence by the
\* one entry n at its end and leaves n's neighbour sequence as it was, also
\* when n = t.
C6_Original ==
    (Added /\ pc = "run") =>
        LET t == last.from
            n == last.to
        IN  /\ terr[t].nNeighbors = Pre[t].nNeighbors + 1
            /\ terr[t].neighbors = Append(Pre[t].neighbors, n)
            /\ terr[n].neighbors = Pre[n].neighbors

\* C6 as amended: adicionarVizinho(t, n) grows t's neighbour count by one,
\* keeps the entries in order and puts n last; when n # t the territory n is
\* left as it was, when n = t the appended entry is the only change; no other
\* territory changes, so no reverse edge is added.
C6_AppendOnly ==
    (Added /\ pc = "run") =>
        LET t == last.from
            n == last.to
        IN  /\ terr[t].nNeighbors = Pre[t].nNeighbors + 1
            /\ Len(terr[t].neighbors) = terr[t].nNeighbors
            /\ SubSeq(terr[t].neighbors, 1, Len(Pre[t].neighbors)) = Pre[t].neighbors
            /\ terr[t].neighbors[Len(terr[t].neighbors)] = n
            /\ terr[t].owner = Pre[t].owner
            /\ terr[t].armies = Pre[t].armies
            /\ terr[t].name = Pre[t].name
            /\ \A u \in Created \ {t} : terr[u] = Pre[u]

\* a neighbour that was already in the sequence is appended a second time
C6_Witness ==
    /\ Added
    /\ pc = "run"
    /\ last.from # last.to
    /\ Occurs(Pre[last.from].neighbors, last.to)
    /\ terr[last.from].neighbors = <<last.to, last.to>>

\* C7: no block is ever freed twice, and once liberarMemoria has returned
\* every block allocated for the registries, their entities and their texts
\* has been freed exactly once, every slot is marked NULL and an absent
\* registry is still absent.
C7_ReleasedExactlyOnce ==
    /\ \A b \in DOMAIN heap : heap[b] <= 1
    /\ pc = "released" =>
          /\ \A b \in DOMAIN heap : heap[b] = 1
          /\ \A i \in 1..Len(territories) : territories[i] = NULL
          /\ \A j \in 1..Len(missions) : missions[j] = NULL
          /\ TerritoriesBlock \in DOMAIN heap <=> territories # NullArray
          /\ MissionsBlock \in DOMAIN heap <=> missions # NullArray

\* a release of a territory that another territory's neighbour array pointed
\* to, together with a mission
C7_Witness ==
    /\ pc = "released"
    /\ Added
    /\ last.from # last.to
    /\ heap[TerrBlock(last.to)] = 1
    /\ heap[NeighborsBlock(last.from)] = 1
    /\ MissionBlock(1) \in DOMAIN heap
    /\ heap[MissionBlock(1)] = 1

Ended == pc \in {"done", "exit"}
Registries == {TerritoriesBlock, MissionsBlock} \cap DOMAIN heap
ValidatedResolve ==
    Attacked => /\ last.ret = 1
                /\ validarAtaque(Pre, last.from, last.to, last.playerId) = 1
NoUseAfterRelease ==
    (\E b \in DOMAIN heap : heap[b] > 0) => pc \in {"L227", "done", "exit"}

\* C8 as stated: in main resolverAtaque runs only after validarAtaque accepted
\* the same arguments, nothing is used after its release, and on every path
\* each registry has been released exactly once when the program ends.
C8_Original ==
    /\ ValidatedResolve
    /\ NoUseAfterRelease
    /\ Ended => \A b \in Registries : heap[b] = 1

\* C8 as amended: in main resolverAtaque runs only after validarAtaque accepted
\* the same arguments, nothing is used after its release, no registry is
\* released twice, and each registry has been released exactly once when main
\* returns; a path that ends in exit() inside criarTerritorio,
\* adicionarVizinho or criarMissao releases nothing.
C8_ReleaseOnceOnReturn ==
    /\ ValidatedResolve
    /\ NoUseAfterRelease
    /\ \A b \in DOMAIN heap : heap[b] <= 1
    /\ pc = "done" => /\ Registries = {TerritoriesBlock, MissionsBlock}
                      /\ \A b \in DOMAIN heap : heap[b] = 1
    /\ (pc = "exit" /\ last.op = "exit" /\ last.out # "malloc territories") =>
          /\ TerritoriesBlock \in DOMAIN heap
          /\ heap[TerritoriesBlock] = 0

\* main has returned after a validated attack and one release
C8_Witness ==
    /\ pc = "done"
    /\ Attacked
    /\ heap[TerritoriesBlock] = 1
    /\ heap[MissionsBlock] = 1

\* C9: after an accepted attack the attacking territory holds at least one
\* army and has the owner it had.
C9_AttackerKeepsOne ==
    Attacked =>
        /\ terr[last.from].armies >= 1
        /\ terr[last.from].owner = Pre[last.from].owner
        /\ \A k \in 1..Len(last.steps) : last.steps[k][last.from].armies >= 1

\* an attacker with exactly two armies lost one
C9_Witness ==
    /\ Attacked
    /\ Pre[last.from].armies = 2
    /\ terr[last.from].armies = 1

Quiescent ==
    pc = "run" =>
        \A from \in Pointers, to \in Pointers, p \in Owners :
            validarAtaque(terr, from, to, p) = 0

RECURSIVE SumArmies(_, _)
SumArmies(T, i) == IF i = 0 THEN 0 ELSE T[i].armies + SumArmies(T, i - 1)

\* the armies on the map plus the territories that hold none
Measure(T) == SumArmies(T, Len(T)) + Cardinality({t \in 1..Len(T) : T[t].armies = 0})

\* C10: every accepted attack lowers the natural number Measure, by the one
\* army it removes, or by the empty territory it fills when it conquers a
\* territory that held no army; a sequence of accepted attacks on a map of
\* measure m is therefore at most m attacks long and ends in a state where
\* validarAtaque rejects every (from, to, player).
C10_AttacksEnd ==
    [][(last'.op = "resolverAtaque" /\ <<terr, last>>' # <<terr, last>>) =>
          /\ Measure(terr') < Measure(terr)
          /\ Measure(terr') >= 0
          /\ \A t \in 1..Len(terr') : terr'[t].armies >= 0]_vars

\* after an accepted attack no further attack is accepted
C10_Witness ==
    /\ Attacked
    /\ pc = "run"
    /\ Len(terr) = MainNTerritories
    /\ Quiescent

====
